---- MODULE Spec2Model ----
(***************************************************************************)
(* A model of the delta-indexed FX volatility smile of rateslib            *)
(* (src/rateslib/fx_volatility.py): FXDeltaVolSmile, its delta             *)
(* conversions and its lookups.                                            *)
(*                                                                         *)
(* Numbers.  Python floats are modelled as exact rationals <<n, d>> in     *)
(* lowest terms with d > 0; rounding error is not modelled, so a property  *)
(* the specification states "within 1e-9" is checked here as an exact      *)
(* equality.  The numeric engine (rateslib.dual) and the spline evaluator  *)
(* (rateslib.splines) are imported by the source but are not part of it;   *)
(* they are modelled from their contract.                                  *)
(***************************************************************************)
EXTENDS Integers, Sequences, FiniteSets, TLC

(***************************************************************************)
(* Exact rational arithmetic.                                              *)
(***************************************************************************)
Abs(a) == IF a < 0 THEN -a ELSE a

RECURSIVE GCD(_, _)
GCD(a, b) == IF b = 0 THEN a ELSE GCD(b, a % b)

QQ(n, d) ==
    LET g == GCD(Abs(n), Abs(d))
        s == IF d < 0 THEN -1 ELSE 1
    IN  <<(s * n) \div g, (s * d) \div g>>

QI(a) == <<a, 1>>
Q0 == <<0, 1>>
Q1 == <<1, 1>>
\* Sums and products cancel common factors before multiplying, which keeps
\* the intermediate integers small.
QAdd(a, b) ==
    LET g == GCD(a[2], b[2])
    IN  QQ(a[1] * (b[2] \div g) + b[1] * (a[2] \div g), (a[2] \div g) * b[2])
QMul(a, b) ==
    LET g1 == GCD(Abs(a[1]), b[2])
        g2 == GCD(Abs(b[1]), a[2])
    IN  IF a[1] = 0 \/ b[1] = 0 THEN <<0, 1>>
        ELSE <<(a[1] \div g1) * (b[1] \div g2), (a[2] \div g2) * (b[2] \div g1)>>
QSub(a, b) == QAdd(a, <<-b[1], b[2]>>)
\* b # 0
QDiv(a, b) == QMul(a, IF b[1] < 0 THEN <<-b[2], -b[1]>> ELSE <<b[2], b[1]>>)
QNeg(a) == <<-a[1], a[2]>>
QLt(a, b) == a[1] * b[2] < b[1] * a[2]
QLe(a, b) == a[1] * b[2] <= b[1] * a[2]

(***************************************************************************)
(* The spline evaluator, rateslib.splines.PPSpline*: B-spline basis        *)
(* functions of order k on the knot sequence t (Cox-de Boor recursion,     *)
(* the last non-empty knot interval closed on the right), the collocation  *)
(* system of csolve and its solution.  Indices are 1-based.                *)
(***************************************************************************)
RECURSIVE bsplev_single(_, _, _, _)
bsplev_single(x, i, k, t) ==
    IF k = 1
    THEN IF \/ (QLe(t[i], x) /\ QLt(x, t[i + 1]))
            \/ (x = t[Len(t)] /\ QLt(t[i], t[i + 1]) /\ t[i + 1] = t[Len(t)])
         THEN Q1 ELSE Q0
    ELSE LET left == IF t[i] # t[i + k - 1]
                     THEN QMul(QDiv(QSub(x, t[i]), QSub(t[i + k - 1], t[i])),
                               bsplev_single(x, i, k - 1, t))
                     ELSE Q0
             right == IF t[i + 1] # t[i + k]
                      THEN QMul(QDiv(QSub(t[i + k], x), QSub(t[i + k], t[i + 1])),
                                bsplev_single(x, i + 1, k - 1, t))
                      ELSE Q0
         IN  QAdd(left, right)

RECURSIVE bspldnev_single(_, _, _, _, _)
bspldnev_single(x, i, k, t, m) ==
    IF m = 0 THEN bsplev_single(x, i, k, t)
    ELSE IF k = 1 \/ m >= k THEN Q0
    ELSE LET div1 == QSub(t[i + k - 1], t[i])
             div2 == QSub(t[i + k], t[i + 1])
             r1 == IF div1 # Q0
                   THEN QDiv(bspldnev_single(x, i, k - 1, t, m - 1), div1)
                   ELSE Q0
             r2 == IF div2 # Q0
                   THEN QDiv(bspldnev_single(x, i + 1, k - 1, t, m - 1), div2)
                   ELSE Q0
         IN  QMul(QI(k - 1), QSub(r1, r2))

\* The solution of the square system M (n rows, n + 1 columns, the last the
\* right-hand side) by Gauss-Jordan elimination; <<>> when a column has no
\* pivot (the system is singular).  Each row is held as integers without a
\* common factor (scaling a row leaves the solution unchanged), which keeps
\* the numbers small.
\* ToSeq(f): the function f on 1..n as a sequence value.
ToSeq(f) == f \o <<>>

RECURSIVE SeqLCM(_, _)
SeqLCM(row, j) ==
    IF j = 0 THEN 1
    ELSE LET l == SeqLCM(row, j - 1)
         IN  (l \div GCD(l, row[j][2])) * row[j][2]

RECURSIVE SeqGCD(_, _)
SeqGCD(row, j) == IF j = 0 THEN 0 ELSE GCD(Abs(row[j]), SeqGCD(row, j - 1))

Primitive(row) ==
    LET g == SeqGCD(row, Len(row))
    IN  IF g = 0 THEN row ELSE ToSeq([j \in 1..Len(row) |-> row[j] \div g])

IntRow(row) ==
    LET l == SeqLCM(row, Len(row))
    IN  Primitive(ToSeq([j \in 1..Len(row) |-> row[j][1] * (l \div row[j][2])]))

SwapRows(M, a, b) == [M EXCEPT ![a] = M[b], ![b] = M[a]]

RECURSIVE Eliminate(_, _)
Eliminate(M, col) ==
    LET n == Len(M) IN
    IF col > n THEN ToSeq([r \in 1..n |-> QQ(M[r][n + 1], M[r][r])])
    ELSE LET cand == {r \in col..n : M[r][col] # 0} IN
         IF cand = {} THEN <<>>
         ELSE LET p == CHOOSE r \in cand : \A q \in cand : r <= q
                  S == SwapRows(M, col, p)
                  E == ToSeq([r \in 1..n |->
                          IF r = col \/ S[r][col] = 0 THEN S[r]
                          ELSE LET g == GCD(Abs(S[r][col]), Abs(S[col][col]))
                                   a == S[col][col] \div g
                                   b == S[r][col] \div g
                               IN  Primitive(ToSeq([j \in 1..(n + 1) |->
                                                a * S[r][j] - b * S[col][j]]))])
              IN  Eliminate(E, col + 1)

GaussJordan(M) == Eliminate(ToSeq([r \in 1..Len(M) |-> IntRow(M[r])]), 1)

\* Spline(k, t, None): an unsolved spline of order k on knots t.
PPSpline(variant, k, t) ==
    [variant |-> variant, k |-> k, t |-> t, n |-> Len(t) - k,
     c |-> <<>>, solved |-> FALSE,
     tau |-> <<>>, y |-> <<>>, left_n |-> 0, right_n |-> 0]

\* spline.csolve(tau, y, left_n, right_n, False): row 1 is the derivative of
\* order left_n at tau[1], the last row the derivative of order right_n at
\* the last site, the rows between are values.  Fails (solved = FALSE) when
\* the system is not square or is singular.
bsplmatrix(sp, tau, left_n, right_n) ==
    ToSeq([r \in 1..Len(tau) |->
        ToSeq([j \in 1..sp.n |->
            bspldnev_single(tau[r], j, sp.k, sp.t,
                IF r = 1 THEN left_n
                ELSE IF r = Len(tau) THEN right_n ELSE 0)])])

spline_csolve(sp, tau, y, left_n, right_n) ==
    LET rec == [sp EXCEPT !.tau = tau, !.y = y,
                          !.left_n = left_n, !.right_n = right_n]
    IN  IF Len(tau) # sp.n \/ Len(y) # Len(tau) THEN rec
        ELSE LET B == bsplmatrix(sp, tau, left_n, right_n)
                 M == ToSeq([r \in 1..sp.n |-> Append(B[r], y[r].real)])
                 c == GaussJordan(M)
             IN  IF c = <<>> THEN rec
                 ELSE [rec EXCEPT !.c = c, !.solved = TRUE]

RECURSIVE QSum(_, _)
QSum(f, n) == IF n = 0 THEN Q0 ELSE QAdd(f[n], QSum(f, n - 1))

ppdnev_single(sp, x, m) ==
    QSum(ToSeq([j \in 1..sp.n |->
            QMul(sp.c[j], bspldnev_single(x, j, sp.k, sp.t, m))]), sp.n)

ppev_single(sp, x) == ppdnev_single(sp, x, 0)

(***************************************************************************)
(* The numeric engine, rateslib.dual, as far as the Smile uses it.         *)
(***************************************************************************)
\* A node value: a float (order 0, no labels) or a Dual / Dual2 (order 1 / 2)
\* carrying the labels of the variables it is sensitive to.
Float(q) == [real |-> q, order |-> 0, vars |-> <<>>]

\* set_order_convert(val, order, tag): a float becomes a float, a Dual or a
\* Dual2 labelled tag (no label when tag is None, here <<>>); a Dual or Dual2
\* keeps its labels when its order changes and loses them at order 0.
set_order_convert(val, order, tag) ==
    IF order = 0 THEN Float(val.real)
    ELSE IF val.order = 0 THEN [real |-> val.real, order |-> order, vars |-> tag]
    ELSE [val EXCEPT !.order = order]

\* dual_exp on a float argument, by the power series cut after the linear
\* term: exp(0) = 1 and exp is increasing.
dual_exp(x) == QAdd(Q1, x)

\* Floats in the solver carry FloatBits binary places: the initial guess,
\* the values read from the spline and each Newton iterate are rounded to
\* the nearest multiple of 2^-FloatBits (halves rounded up).
FloatBits == 4
fl(q) ==
    LET g == 2 ^ FloatBits
    IN  QQ((2 * q[1] * g + q[2]) \div (2 * q[2]), g)

\* dual_log on a positive float, by the Pade approximant 2(x - 1)/(x + 1):
\* log(1) = 0 and log is increasing.
dual_log(x) == QDiv(QMul(QI(2), QSub(x, Q1)), QAdd(x, Q1))

\* dual_norm_cdf, by the chord 1/2 + x/4 between its limits 0 and 1, and
\* dual_norm_pdf, the derivative of that.
dual_norm_cdf(x) ==
    IF QLe(x, QI(-2)) THEN Q0
    ELSE IF QLe(QI(2), x) THEN Q1
    ELSE QAdd(<<1, 2>>, QMul(<<1, 4>>, x))
dual_norm_pdf(x) ==
    IF QLt(QI(-2), x) /\ QLt(x, QI(2)) THEN <<1, 4>> ELSE Q0

\* x ** 0.5 on a float: the root of a non-negative square, and a complex
\* number (Python's result) for a negative base.
IntRoot(a) == CHOOSE r \in 0..a : r * r = a
pow_half(x) ==
    IF x[1] < 0
    THEN [complex |-> TRUE, q |-> QQ(IntRoot(-x[1]), IntRoot(x[2]))]
    ELSE [complex |-> FALSE, q |-> QQ(IntRoot(x[1]), IntRoot(x[2]))]

(***************************************************************************)
(* Strings: sequences of characters, so that str.lower() and the           *)
(* substring test `"_pa" in s` are computed.                               *)
(***************************************************************************)
Str_forward    == <<"f", "o", "r", "w", "a", "r", "d">>
Str_spot       == <<"s", "p", "o", "t">>
Str_forward_pa == <<"f", "o", "r", "w", "a", "r", "d", "_", "p", "a">>
Str_spot_pa    == <<"s", "p", "o", "t", "_", "p", "a">>
Str_pa         == <<"_", "p", "a">>

LowerChar(c) ==
    CASE c = "A" -> "a" [] c = "D" -> "d" [] c = "F" -> "f" [] c = "O" -> "o"
      [] c = "P" -> "p" [] c = "R" -> "r" [] c = "S" -> "s" [] c = "T" -> "t"
      [] c = "W" -> "w" [] c = "X" -> "x" [] OTHER -> c

lower(s) == [i \in 1..Len(s) |-> LowerChar(s[i])]

\* sub in s
Contains(sub, s) ==
    \E i \in 0..(Len(s) - Len(sub)) :
        \A j \in 1..Len(sub) : s[i + j] = sub[j]

\* A variant of _validate_delta_type that returns the string as given.
validate_keeps_case(delta_type) ==
    IF lower(delta_type) \notin {Str_spot, Str_spot_pa, Str_forward, Str_forward_pa}
    THEN [err |-> "ValueError", val |-> <<>>]
    ELSE [err |-> "", val |-> delta_type]

\* _validate_delta_type(delta_type)
_validate_delta_type(delta_type) ==
    IF lower(delta_type) \notin {Str_spot, Str_spot_pa, Str_forward, Str_forward_pa}
    THEN [err |-> "ValueError", val |-> <<>>]
    ELSE [err |-> "", val |-> lower(delta_type)]

(***************************************************************************)
(* FXDeltaVolSmile                                                         *)
(***************************************************************************)
\* The divisor of (expiry - eval_date).days in __init__.
DaysPerYear == 365

NoSmile == [exists |-> FALSE]

Last(s) == s[Len(s)]
Rep4(x) == <<x, x, x, x>>
Values(nodes) == ToSeq([i \in 1..Len(nodes) |-> nodes[i].v])
Keys(nodes) == ToSeq([i \in 1..Len(nodes) |-> nodes[i].k])

\* A variant of _csolve_n1 that does not double the single node.
_csolve_n1_single(self) ==
    LET zero == set_order_convert(Float(Q0), self.ad, <<>>)
    IN  [tau |-> <<self.t[1]>> \o Keys(self.nodes) \o <<Last(self.t)>>,
         y |-> <<zero>> \o Values(self.nodes) \o <<zero>>,
         left_n |-> 2, right_n |-> 2]

\* _csolve_n1: one node is doubled, the copy placed at tau = t[0].
_csolve_n1(self) ==
    LET tau0 == <<self.t[1]>> \o Keys(self.nodes)
        y0 == Values(self.nodes) \o Values(self.nodes)
        zero == set_order_convert(Float(Q0), self.ad, <<>>)
    IN  [tau |-> <<self.t[1]>> \o tau0 \o <<Last(self.t)>>,
         y |-> <<zero>> \o y0 \o <<zero>>,
         left_n |-> 2, right_n |-> 2]

\* A variant of _csolve_n_other that clamps the first derivative at the
\* upper bound instead of the second.
_csolve_n_other_clamped_right(self) ==
    LET zero == set_order_convert(Float(Q0), self.ad, <<>>)
    IN  [tau |-> <<self.t[1]>> \o Keys(self.nodes) \o <<Last(self.t)>>,
         y |-> <<zero>> \o Values(self.nodes) \o <<zero>>,
         left_n |-> 2, right_n |-> 1]

\* _csolve_n_other
_csolve_n_other(self) ==
    LET zero == set_order_convert(Float(Q0), self.ad, <<>>)
    IN  [tau |-> <<self.t[1]>> \o Keys(self.nodes) \o <<Last(self.t)>>,
         y |-> <<zero>> \o Values(self.nodes) \o <<zero>>,
         left_n |-> 2, right_n |-> 2]

\* csolve: the spline class by self.ad, the constraints by self.n, then the
\* solve.  err is set when the solver rejects the system; csolves counts the
\* calls of csolve an operation makes.
csolve(self) ==
    LET Spline == IF self.ad = 0 THEN "PPSplineF64"
                  ELSE IF self.ad = 1 THEN "PPSplineDual" ELSE "PPSplineDual2"
        a == IF self.n = 1 THEN _csolve_n1(self) ELSE _csolve_n_other(self)
        sp == spline_csolve(PPSpline(Spline, 4, self.t),
                            a.tau, a.y, a.left_n, a.right_n)
    IN  [err |-> IF sp.solved THEN "" ELSE "SolveError",
         self |-> [self EXCEPT !.spline = sp],
         csolves |-> 1]

\* A variant of _set_ad_order without the early return for an unchanged
\* order.
set_ad_order_always_solves(self, order) ==
    IF order \notin {0, 1, 2}
    THEN [err |-> "ValueError", self |-> self, csolves |-> 0]
    ELSE csolve([self EXCEPT
            !.ad = order,
            !.nodes = ToSeq([i \in 1..Len(self.nodes) |->
                         [k |-> self.nodes[i].k,
                          v |-> set_order_convert(self.nodes[i].v, order, <<i>>)]])])

\* A variant of _set_ad_order that rebuilds the nodes in reverse order.
set_ad_order_reverses_nodes(self, order) ==
    IF order = self.ad THEN [err |-> "", self |-> self, csolves |-> 0]
    ELSE IF order \notin {0, 1, 2}
    THEN [err |-> "ValueError", self |-> self, csolves |-> 0]
    ELSE csolve([self EXCEPT
            !.ad = order,
            !.nodes = ToSeq([i \in 1..Len(self.nodes) |->
                         [k |-> self.nodes[Len(self.nodes) + 1 - i].k,
                          v |-> set_order_convert(
                                    self.nodes[Len(self.nodes) + 1 - i].v, order, <<i>>)]])])

\* A variant of _set_ad_order that solves the spline only when there is
\* none yet.
set_ad_order_stale_spline(self, order) ==
    IF order = self.ad THEN [err |-> "", self |-> self, csolves |-> 0]
    ELSE IF order \notin {0, 1, 2}
    THEN [err |-> "ValueError", self |-> self, csolves |-> 0]
    ELSE LET tagged == [self EXCEPT
                !.ad = order,
                !.nodes = ToSeq([i \in 1..Len(self.nodes) |->
                             [k |-> self.nodes[i].k,
                              v |-> set_order_convert(self.nodes[i].v, order, <<i>>)]])]
         IN  IF self.ad = -1 THEN csolve(tagged)
             ELSE [err |-> "", self |-> tagged, csolves |-> 0]

\* A variant of _set_ad_order that stores the order before it validates it.
set_ad_order_stores_then_checks(self, order) ==
    IF order = self.ad THEN [err |-> "", self |-> self, csolves |-> 0]
    ELSE IF order \notin {0, 1, 2}
    THEN [err |-> "ValueError", self |-> [self EXCEPT !.ad = order], csolves |-> 0]
    ELSE csolve([self EXCEPT
            !.ad = order,
            !.nodes = ToSeq([i \in 1..Len(self.nodes) |->
                         [k |-> self.nodes[i].k,
                          v |-> set_order_convert(self.nodes[i].v, order, <<i>>)]])])

\* _set_ad_order(order); self.ad is -1 while the attribute does not exist.
_set_ad_order(self, order) ==
    IF order = self.ad THEN [err |-> "", self |-> self, csolves |-> 0]
    ELSE IF order \notin {0, 1, 2}
    THEN [err |-> "ValueError", self |-> self, csolves |-> 0]
    ELSE csolve([self EXCEPT
            !.ad = order,
            !.nodes = ToSeq([i \in 1..Len(self.nodes) |->
                         [k |-> self.nodes[i].k,
                          v |-> set_order_convert(self.nodes[i].v, order, <<i>>)]])])

\* A variant of the upper bound that reads the first node's volatility.
upper_bound_first_node(delta_type, nodes, t_expiry_sqrt) ==
    IF Contains(Str_pa, delta_type)
    THEN LET vol == QDiv(nodes[1].v.real, QI(100))
             vs == QMul(vol, t_expiry_sqrt.q)
         IN  dual_exp(QMul(vs, QAdd(<<19, 4>>, QMul(<<1, 2>>, vs))))
    ELSE Q1

\* The upper bound of the delta index computed by __init__.
upper_bound(delta_type, nodes, t_expiry_sqrt) ==
    IF Contains(Str_pa, delta_type)
    THEN LET vol == QDiv(Last(nodes).v.real, QI(100))
             vs == QMul(vol, t_expiry_sqrt.q)
         IN  dual_exp(QMul(vs, QAdd(<<19, 4>>, QMul(<<1, 2>>, vs))))
    ELSE Q1

\* A variant of the knot sequence whose interior knots are node_keys[0:-2].
knots_shifted(node_keys, ub) ==
    IF Len(node_keys) \in {1, 2}
    THEN Rep4(Q0) \o Rep4(ub)
    ELSE Rep4(Q0) \o SubSeq(node_keys, 1, Len(node_keys) - 2) \o Rep4(ub)

\* The knot sequence computed by __init__.
knots(node_keys, ub) ==
    IF Len(node_keys) \in {1, 2}
    THEN Rep4(Q0) \o Rep4(ub)
    ELSE Rep4(Q0) \o SubSeq(node_keys, 2, Len(node_keys) - 1) \o Rep4(ub)

\* FXDeltaVolSmile(nodes, eval_date, expiry, delta_type, ad=ad)
__init__(nodes, eval_date, expiry, delta_type, ad) ==
    LET t_expiry == QQ(expiry - eval_date, DaysPerYear)
        t_expiry_sqrt == pow_half(t_expiry)
        dt == _validate_delta_type(delta_type)
        pa == Contains(Str_pa, dt.val)
    IN  IF dt.err # "" THEN [err |-> dt.err, self |-> NoSmile, csolves |-> 0]
        ELSE IF pa /\ Len(nodes) = 0
        THEN [err |-> "IndexError", self |-> NoSmile, csolves |-> 0]
        ELSE IF pa /\ t_expiry_sqrt.complex
        THEN [err |-> "TypeError", self |-> NoSmile, csolves |-> 0]
        ELSE LET self0 == [exists |-> TRUE,
                           nodes |-> nodes,
                           node_keys |-> Keys(nodes),
                           n |-> Len(nodes),
                           eval_date |-> eval_date,
                           expiry |-> expiry,
                           t_expiry |-> t_expiry,
                           t_expiry_sqrt |-> t_expiry_sqrt,
                           delta_type |-> dt.val,
                           t |-> knots(Keys(nodes),
                                       upper_bound(dt.val, nodes, t_expiry_sqrt)),
                           ad |-> -1,
                           spline |-> PPSpline("", 4, <<>>)]
                 r == _set_ad_order(self0, ad)
             IN  IF r.err # ""
                 THEN [err |-> r.err, self |-> NoSmile, csolves |-> r.csolves]
                 ELSE r

\* A variant of self[item] that clamps an item above the last knot to it.
getitem_clamped(self, item) ==
    IF QLt(Last(self.t), item)
    THEN [err |-> "", val |-> <<ppev_single(self.spline, Last(self.t))>>]
    ELSE IF QLt(item, self.t[1]) THEN [err |-> "ValueError", val |-> <<>>]
    ELSE [err |-> "", val |-> <<ppev_single(self.spline, item)>>]

\* self[item]
__getitem__(self, item) ==
    IF QLt(Last(self.t), item) THEN [err |-> "ValueError", val |-> <<>>]
    ELSE IF QLt(item, self.t[1]) THEN [err |-> "ValueError", val |-> <<>>]
    ELSE [err |-> "", val |-> <<ppev_single(self.spline, item)>>]

\* A variant of _call_to_put_delta whose call-to-put offset is 1 for every
\* delta type.
call_to_put_unit_offset(self, delta, delta_type, z_w, u) ==
    IF delta_type \in {Str_forward, Str_spot, Str_forward_pa, Str_spot_pa}
    THEN [err |-> "", val |-> <<QSub(delta, Q1)>>]
    ELSE [err |-> "ValueError", val |-> <<>>]

\* _call_to_put_delta(delta, delta_type, z_w, u)
_call_to_put_delta(self, delta, delta_type, z_w, u) ==
    IF delta_type = Str_forward THEN [err |-> "", val |-> <<QSub(delta, Q1)>>]
    ELSE IF delta_type = Str_spot THEN [err |-> "", val |-> <<QSub(delta, z_w)>>]
    ELSE IF delta_type = Str_forward_pa THEN [err |-> "", val |-> <<QSub(delta, u)>>]
    ELSE IF delta_type = Str_spot_pa
         THEN [err |-> "", val |-> <<QSub(delta, QMul(z_w, u))>>]
    ELSE [err |-> "ValueError", val |-> <<>>]

\* A variant of the index conversion whose spot premium-adjusted branch
\* leaves out the basis factor z_w.
delta_index_without_basis(self, delta, phi, z_w, u) ==
    LET put_delta ==
            IF phi > 0
            THEN IF self.delta_type = Str_forward THEN QSub(delta, Q1)
                 ELSE IF self.delta_type = Str_spot THEN QSub(delta, z_w)
                 ELSE QSub(delta, u)
            ELSE delta
    IN  QMul(QI(-1), put_delta)

\* _delta_index_from_call_or_put_delta(delta, phi, z_w, u)
_delta_index_from_call_or_put_delta(self, delta, phi, z_w, u) ==
    LET put_delta ==
            IF phi > 0
            THEN IF self.delta_type = Str_forward THEN QSub(delta, Q1)
                 ELSE IF self.delta_type = Str_spot THEN QSub(delta, z_w)
                 ELSE IF self.delta_type = Str_forward_pa THEN QSub(delta, u)
                 ELSE QSub(delta, QMul(z_w, u))
            ELSE delta
    IN  QMul(QI(-1), put_delta)

\* A variant of _convert_delta whose call branch subtracts 1 for every
\* delta type.
convert_delta_unit_offset(self, delta, delta_type, phi, w_deli, w_spot) ==
    IF Contains(Str_pa, self.delta_type) \/ Contains(Str_pa, delta_type)
    THEN [err |-> "NotImplementedError", val |-> <<>>]
    ELSE LET d1 == IF phi > 0 THEN QSub(delta, Q1) ELSE delta
             d2 == QMul(d1, QI(-1))
         IN  IF self.delta_type = delta_type THEN [err |-> "", val |-> <<d2>>]
             ELSE IF self.delta_type = Str_forward /\ delta_type = Str_spot
                  THEN [err |-> "", val |-> <<QDiv(QMul(d2, w_spot), w_deli)>>]
             ELSE [err |-> "", val |-> <<QDiv(QMul(d2, w_deli), w_spot)>>]

\* _convert_delta(delta, delta_type, phi, w_deli, w_spot)
_convert_delta(self, delta, delta_type, phi, w_deli, w_spot) ==
    IF Contains(Str_pa, self.delta_type) \/ Contains(Str_pa, delta_type)
    THEN [err |-> "NotImplementedError", val |-> <<>>]
    ELSE LET d1 == IF phi > 0
                   THEN IF delta_type = Str_spot
                        THEN QSub(delta, QDiv(w_deli, w_spot))
                        ELSE QSub(delta, Q1)
                   ELSE delta
             d2 == QMul(d1, QI(-1))
         IN  IF self.delta_type = delta_type THEN [err |-> "", val |-> <<d2>>]
             ELSE IF self.delta_type = Str_forward /\ delta_type = Str_spot
                  THEN [err |-> "", val |-> <<QDiv(QMul(d2, w_spot), w_deli)>>]
             ELSE [err |-> "", val |-> <<QDiv(QMul(d2, w_deli), w_spot)>>]

\* The attributes an FXDeltaVolSmile instance resolves: its methods and the
\* fields __init__ assigns.
Attributes ==
    {"__init__", "__iter__", "__getitem__", "get", "get_from_strike",
     "_call_to_put_delta", "_delta_index_from_call_or_put_delta",
     "_convert_delta", "_csolve_n1", "_csolve_n_other", "csolve",
     "_build_datatable", "_create_approx_spline_conversions",
     "_set_ad_order", "plot", "_ini_solve",
     "id", "nodes", "node_keys", "n", "eval_date", "expiry", "t_expiry",
     "t_expiry_sqrt", "delta_type", "t", "ad", "spline"}

\* get(delta, delta_type, phi, w_deli, w_spot):
\*     return self[self.convert_delta(delta, delta_type, phi, w_deli, w_spot)]
get(self, delta, delta_type, phi, w_deli, w_spot) ==
    IF "convert_delta" \notin Attributes
    THEN [err |-> "AttributeError", val |-> <<>>]
    ELSE LET i == _convert_delta(self, delta, delta_type, phi, w_deli, w_spot)
         IN  IF i.err # "" THEN i ELSE __getitem__(self, i.val[1])

\* A variant of _convert_same_adjustment_delta with the two rescalings
\* exchanged.
convert_same_adjustment_inverted(delta, from_delta_type, to_delta_type, w_deli, w_spot) ==
    IF \/ (Contains(Str_pa, from_delta_type) /\ ~Contains(Str_pa, to_delta_type))
       \/ (~Contains(Str_pa, from_delta_type) /\ Contains(Str_pa, to_delta_type))
    THEN [err |-> "ValueError", val |-> <<>>]
    ELSE IF from_delta_type = to_delta_type THEN [err |-> "", val |-> <<delta>>]
    ELSE IF Contains(Str_forward, to_delta_type) /\ Contains(Str_spot, from_delta_type)
         THEN [err |-> "", val |-> <<QDiv(QMul(delta, w_deli), w_spot)>>]
    ELSE [err |-> "", val |-> <<QDiv(QMul(delta, w_spot), w_deli)>>]

\* _convert_same_adjustment_delta(delta, from_delta_type, to_delta_type, w_deli, w_spot)
_convert_same_adjustment_delta(delta, from_delta_type, to_delta_type, w_deli, w_spot) ==
    IF \/ (Contains(Str_pa, from_delta_type) /\ ~Contains(Str_pa, to_delta_type))
       \/ (~Contains(Str_pa, from_delta_type) /\ Contains(Str_pa, to_delta_type))
    THEN [err |-> "ValueError", val |-> <<>>]
    ELSE IF from_delta_type = to_delta_type THEN [err |-> "", val |-> <<delta>>]
    ELSE IF Contains(Str_forward, to_delta_type) /\ Contains(Str_spot, from_delta_type)
         THEN [err |-> "", val |-> <<QDiv(QMul(delta, w_spot), w_deli)>>]
    ELSE [err |-> "", val |-> <<QDiv(QMul(delta, w_deli), w_spot)>>]

(***************************************************************************)
(* The Newton solver and get_from_strike.                                  *)
(***************************************************************************)
\* The defaults of _newton's max_iter and tolerance (1e-9).
DefaultMaxIter == 50
DefaultTolerance == <<1, 1000000000>>

\* abs(x1 - x0) < tolerance, for a tolerance 1/T, without leaving TLC's
\* integers: n/d < 1/T iff n * T < d.
StepBelow(x1, x0, tolerance) ==
    LET step == QSub(x1, x0)
        n == Abs(step[1])
    IN  n = 0 \/ (n <= 2147483647 \div tolerance[2] /\ n * tolerance[2] < step[2] * tolerance[1])

Raise(err, by) == [err |-> err, val |-> <<>>, raised_by |-> by]
Value(q) == [err |-> "", val |-> <<q>>, raised_by |-> ""]

\* The volatility and its slope that root and root_deriv read at a delta:
\*     delta_index = self._delta_index_from_call_or_put_delta(delta, phi, z_w, u)
\*     vol_ = self[delta_index] / 100.0
\*     dvol_ddelta = -1.0 * self.spline.ppdnev_single(delta_index, 1) / 100.0
smile_values(f, delta_index, item) ==
    IF item.err # "" THEN Raise(item.err, "__getitem__")
    ELSE [err |-> "", raised_by |-> "",
          vol_ |-> fl(QDiv(item.val[1], QI(100))),
          dvol_ddelta |-> fl(QDiv(QMul(QI(-1),
                              ppdnev_single(f.self.spline, delta_index, 1)),
                             QI(100)))]

SmileAt(f, delta, args) ==
    LET delta_index == _delta_index_from_call_or_put_delta(
                            f.self, delta, f.phi, args.z_w, args.u)
    IN  CHOOSE r \in {smile_values(f, delta_index, item) :
                        item \in {__getitem__(f.self, delta_index)}} : TRUE

\* root(delta, u, sqrt_t, z_u, z_w, ad) of get_from_strike; f holds the
\* variables of the enclosing call (self, phi, p_m).
root_at(f, delta, args, at) ==
    IF at.err # "" THEN at
    ELSE LET vol_sqrt_t == QMul(args.sqrt_t, at.vol_)
         IN  IF vol_sqrt_t = Q0 THEN Raise("ZeroDivisionError", "root")
             ELSE LET d_plus_min == QAdd(QDiv(QNeg(dual_log(args.u)), vol_sqrt_t),
                                         QMul(f.p_m, vol_sqrt_t))
                  IN  Value(QSub(delta,
                            QMul(QMul(QMul(args.z_w, args.z_u), QI(f.phi)),
                                 dual_norm_cdf(QMul(QI(f.phi), d_plus_min)))))

root(f, delta, args) ==
    CHOOSE r \in {root_at(f, delta, args, at) : at \in {SmileAt(f, delta, args)}} : TRUE

\* root_deriv(delta, u, sqrt_t, z_u, z_w, ad) of get_from_strike.
root_deriv_at(f, delta, args, at) ==
    IF at.err # "" THEN at
    ELSE LET vol_sqrt_t == QMul(args.sqrt_t, at.vol_)
         IN  IF vol_sqrt_t = Q0 THEN Raise("ZeroDivisionError", "root_deriv")
             ELSE LET d_plus_min == QAdd(QDiv(QNeg(dual_log(args.u)), vol_sqrt_t),
                                         QMul(f.p_m, vol_sqrt_t))
                      dd_ddelta ==
                        QMul(at.dvol_ddelta,
                             QAdd(QDiv(dual_log(args.u), QMul(vol_sqrt_t, vol_sqrt_t)),
                                  QMul(f.p_m, args.sqrt_t)))
                  IN  Value(QSub(Q1,
                            QMul(QMul(QMul(args.z_w, args.z_u),
                                      dual_norm_pdf(QMul(QI(f.phi), d_plus_min))),
                                 dd_ddelta)))

root_deriv(f, delta, args) ==
    CHOOSE r \in {root_deriv_at(f, delta, args, at) : at \in {SmileAt(f, delta, args)}} :
        TRUE

\* The outcome of a call of _newton: the value returned or the exception
\* raised, with the steps taken, the estimates visited (x0 and every x1) and
\* the numbers of evaluations of f and of f1.
newton_result(st, err, val, raised_by, evals) ==
    [err |-> err, val |-> val, raised_by |-> raised_by, steps |-> st.steps_taken,
     trace |-> st.trace, evals |-> evals]

\* One pass through the body of the while loop of _newton.  st holds x0, the
\* steps taken and, once the call has returned or raised, its outcome; a call
\* that has ended takes no further pass.
newton_end(st, x1, tolerance) ==
    LET visited == [st EXCEPT !.trace = Append(@, x1)]
    IN  IF StepBelow(x1, st.x0, tolerance)
        THEN [visited EXCEPT !.out = <<newton_result(visited, "", <<x1>>, "",
                                           <<st.steps_taken, st.steps_taken>>)>>]
        ELSE [visited EXCEPT !.x0 = x1]

newton_update(st, f0, f10, tolerance) ==
    IF f0.err # ""
    THEN [st EXCEPT !.out = <<newton_result(st, f0.err, <<>>, f0.raised_by,
                                  <<st.steps_taken, st.steps_taken - 1>>)>>]
    ELSE IF f10.err # ""
    THEN [st EXCEPT !.out = <<newton_result(st, f10.err, <<>>, f10.raised_by,
                                  <<st.steps_taken, st.steps_taken>>)>>]
    ELSE IF f10.val[1] = Q0
    THEN [st EXCEPT !.out = <<newton_result(st, "ZeroDivisionError", <<>>, "_newton",
                                  <<st.steps_taken, st.steps_taken>>)>>]
    ELSE CHOOSE r \in
            {newton_end(st, x1, tolerance) :
                x1 \in {fl(QSub(st.x0, QDiv(f0.val[1], f10.val[1])))}} : TRUE

newton_body(f, st, tolerance, args) ==
    IF st.out # <<>> THEN st
    ELSE CHOOSE r \in
            {newton_update([st EXCEPT !.steps_taken = @ + 1], f0, f10, tolerance) :
                f0 \in {root(f, st.x0, args)},
                f10 \in {root_deriv(f, st.x0, args)}} : TRUE

\* n passes through the loop body, the first half of them and then the rest.
RECURSIVE newton_loop(_, _, _, _, _)
newton_loop(f, st, n, tolerance, args) ==
    IF st.out # <<>> \/ n = 0 THEN st
    ELSE IF n = 1 THEN newton_body(f, st, tolerance, args)
    ELSE CHOOSE r \in
            {newton_loop(f, half, n - (n \div 2), tolerance, args) :
                half \in {newton_loop(f, st, n \div 2, tolerance, args)}} : TRUE

\* _newton(f, f1, x0, max_iter, tolerance, args=args), with f and f1 the root
\* and root_deriv of the get_from_strike call f: the loop runs while
\* steps_taken < max_iter, and raises when it ends without a return.
newton_outcome(st) ==
    IF st.out # <<>> THEN st.out[1]
    ELSE newton_result(st, "ValueError", <<>>, "_newton",
                       <<st.steps_taken, st.steps_taken>>)

_newton(f, x0, max_iter, tolerance, args) ==
    CHOOSE r \in
        {newton_outcome(st) :
            st \in {newton_loop(f, [x0 |-> x0, steps_taken |-> 0, out |-> <<>>,
                                    trace |-> <<x0>>],
                                max_iter, tolerance, args)}} : TRUE

\* The record of one call of _newton, kept in the result of get_from_strike.
SolverCall(x0, max_iter, ad, r) ==
    [x0 |-> x0, max_iter |-> max_iter, ad |-> ad,
     err |-> r.err, val |-> r.val, raised_by |-> r.raised_by, steps |-> r.steps,
     trace |-> r.trace]

\* The two solver calls of get_from_strike: the plain solve from delta_0
\* and, when it has returned, the tracked step from its root.  calls lists
\* the calls of _newton made, in order.
plain_result(fn, delta_0, args, plain) ==
    [root |-> plain, calls |-> <<SolverCall(delta_0, DefaultMaxIter, 0, plain)>>]

solve_plain_only(fn, delta_0, args) ==
    CHOOSE r \in
        {plain_result(fn, delta_0, args, plain) :
            plain \in {_newton(fn, delta_0, DefaultMaxIter, DefaultTolerance,
                               [args EXCEPT !.ad = 0])}} : TRUE

relaxed_retry(fn, delta_0, args, plain, again) ==
    [root |-> again,
     calls |-> <<SolverCall(delta_0, DefaultMaxIter, 0, plain),
                 SolverCall(delta_0, DefaultMaxIter, 0, again)>>]

retry_after_plain(fn, delta_0, args, plain) ==
    IF plain.err = "ValueError" /\ plain.raised_by = "_newton"
    THEN CHOOSE r \in
            {relaxed_retry(fn, delta_0, args, plain, again) :
                again \in {_newton(fn, delta_0, DefaultMaxIter, <<1, 2>>,
                                   [args EXCEPT !.ad = 0])}} : TRUE
    ELSE plain_result(fn, delta_0, args, plain)

solve_retry_relaxed(fn, delta_0, args) ==
    CHOOSE r \in
        {retry_after_plain(fn, delta_0, args, plain) :
            plain \in {_newton(fn, delta_0, DefaultMaxIter, DefaultTolerance,
                               [args EXCEPT !.ad = 0])}} : TRUE

tracked_step(fn, delta_0, args, plain, tracked) ==
    [root |-> tracked,
     calls |-> <<SolverCall(delta_0, DefaultMaxIter, 0, plain),
                 SolverCall(plain.val[1], 1, 1, tracked)>>]

after_plain(fn, delta_0, args, plain) ==
    IF plain.err # ""
    THEN [root |-> plain, calls |-> <<SolverCall(delta_0, DefaultMaxIter, 0, plain)>>]
    ELSE CHOOSE r \in
            {tracked_step(fn, delta_0, args, plain, tracked) :
                tracked \in {_newton(fn, plain.val[1], 1, DefaultTolerance,
                                     [args EXCEPT !.ad = 1])}} : TRUE

solve_two_phase(fn, delta_0, args) ==
    CHOOSE r \in
        {after_plain(fn, delta_0, args, plain) :
            plain \in {_newton(fn, delta_0, DefaultMaxIter, DefaultTolerance,
                               [args EXCEPT !.ad = 0])}} : TRUE

\* A variant of the end of get_from_strike that leaves the labels of the
\* tracked step on the node values.
strike_result_retagged(self, k, phi, z_w, u, solved) ==
    LET kept == [self EXCEPT
                    !.nodes = ToSeq([i \in 1..Len(self.nodes) |->
                                 [k |-> self.nodes[i].k,
                                  v |-> [real |-> self.nodes[i].v.real, order |-> 1,
                                         vars |-> <<i>>]]])]
    IN  IF solved.root.err # ""
        THEN [err |-> solved.root.err, val |-> <<>>,
              raised_by |-> solved.root.raised_by, calls |-> solved.calls,
              self |-> self]
        ELSE [err |-> "", val |-> <<>>, raised_by |-> "", calls |-> solved.calls,
              self |-> kept]

\* The end of get_from_strike, from the solved delta to the returned tuple;
\* self is the Smile as the call leaves it.
strike_result(self, k, phi, z_w, u, solved) ==
    IF solved.root.err # ""
    THEN [err |-> solved.root.err, val |-> <<>>,
          raised_by |-> solved.root.raised_by, calls |-> solved.calls,
          self |-> self]
    ELSE
    LET delta == solved.root.val[1]
        put == _call_to_put_delta(self, delta, self.delta_type, z_w, u)
        delta_index == IF phi > 0 THEN QMul(QI(-1), put.val[1])
                       ELSE QMul(QI(-1), delta)
        item == __getitem__(self, delta_index)
    IN  IF item.err # ""
        THEN [err |-> item.err, val |-> <<>>, raised_by |-> "__getitem__",
              calls |-> solved.calls, self |-> self]
        ELSE [err |-> "", val |-> <<delta_index, item.val[1], k>>,
              raised_by |-> "", calls |-> solved.calls, self |-> self]

\* A variant of avg_vol that reads the first node.
avg_vol_first_node(self) == QDiv(self.nodes[1].v.real, QI(100))

\* avg_vol of get_from_strike: float(list(self.nodes.values())[int(self.n/2)])
\* / 100.0, the list being indexed from 0 and the sequence from 1.
avg_vol(self) == QDiv(self.nodes[(self.n \div 2) + 1].v.real, QI(100))

\* get_from_strike(k, phi, f, w_deli, w_spot)
get_from_strike(self, k, phi, f, w_deli, w_spot) ==
    LET u == QDiv(k, f)
        z_w == IF Contains(Str_spot, self.delta_type) THEN QDiv(w_deli, w_spot) ELSE Q1
        pa == Contains(Str_pa, self.delta_type)
        p_m == IF pa THEN <<-1, 2>> ELSE <<1, 2>>
        z_u == IF pa THEN u ELSE Q1
        fn == [self |-> self, phi |-> phi, p_m |-> p_m]
        sqrt_t == self.t_expiry_sqrt.q
        Fail(r, calls) == [err |-> r.err, val |-> <<>>, raised_by |-> r.raised_by,
                           calls |-> calls, self |-> self]
    IN  IF self.t_expiry_sqrt.complex
        THEN Fail(Raise("TypeError", "float"), <<>>)
        ELSE IF ~QLt(Q0, u) THEN Fail(Raise("ValueError", "dual_log"), <<>>)
        ELSE IF QMul(avg_vol(self), sqrt_t) = Q0
        THEN Fail(Raise("ZeroDivisionError", "get_from_strike"), <<>>)
        ELSE
        LET d_plus_min == QAdd(QDiv(QNeg(dual_log(u)), QMul(avg_vol(self), sqrt_t)),
                               QMul(QMul(p_m, avg_vol(self)), sqrt_t))
            delta_0 == fl(QMul(QMul(QMul(z_u, QI(phi)), z_w),
                               dual_norm_cdf(QMul(QI(phi), d_plus_min))))
        IN  CHOOSE r \in
                {strike_result(self, k, phi, z_w, u, solved) :
                    solved \in {solve_two_phase(fn, delta_0,
                                    [u |-> u, sqrt_t |-> sqrt_t, z_u |-> z_u,
                                     z_w |-> z_w, ad |-> 0])}} : TRUE

(***************************************************************************)
(* Inputs.                                                                 *)
(***************************************************************************)
MaxNodes == 3

\* Delta-index keys offered as node keys, and the points looked up.
KeyGrid == {Q0, <<1, 2>>, Q1, <<3, 2>>, <<2, 1>>}
LookupGrid == KeyGrid \cup {<<-1, 2>>, <<1, 4>>, <<7, 2>>, <<4, 1>>}

IsSortedSeq(ks) == \A i \in 1..(Len(ks) - 1) : QLt(ks[i], ks[i + 1])
Reverse(s) == [i \in 1..Len(s) |-> s[Len(s) + 1 - i]]

\* Volatilities in percent, alternating along the nodes from 25 or from 50.
VolProfile(p, i) == Float(QI(IF (i + p) % 2 = 0 THEN 25 ELSE 50))

\* A dict of nodes in insertion order: distinct keys, ascending or descending.
KeySeqs ==
    {ks \in UNION {[1..n -> KeyGrid] : n \in 0..MaxNodes} :
        IsSortedSeq(ks) \/ IsSortedSeq(Reverse(ks))}
NodeInputs ==
    {[i \in 1..Len(ks) |-> [k |-> ks[i], v |-> VolProfile(p, i)]] :
        ks \in KeySeqs, p \in {0, 1}}

\* Dates are day numbers; expiries one year before and five years after the
\* evaluation date.
EvalDate == DaysPerYear
ExpiryDates == {0, 5 * DaysPerYear}
TypeInputs == {Str_forward, Str_spot, Str_forward_pa, Str_spot_pa}
\* Strings a caller may pass as a delta type: the four conventions, two of
\* them in another letter case, and a string that names no convention.
Str_SPOT       == <<"S", "P", "O", "T">>
Str_Forward_PA == <<"F", "o", "r", "w", "a", "r", "d", "_", "P", "A">>
Str_delta      == <<"d", "e", "l", "t", "a">>
TypeStrings == TypeInputs \cup {Str_SPOT, Str_Forward_PA, Str_delta}
AdInputs == 0..3
DeltaInputs == {<<-3, 4>>, <<-1, 4>>, <<1, 4>>, <<3, 4>>}
PhiInputs == {-1, 1}
\* (w_deli, w_spot) discount factors.
WInputs == {<<Q1, Q1>>, <<<<1, 2>>, <<3, 4>>>>}
UInputs == {Q1, <<5, 4>>}

\* The constructions explored are those whose upper bound is at most 4: the
\* knot spacings then keep the exact spline arithmetic within TLC's integers.
Explored(nodes, expiry, delta_type) ==
    LET dt == lower(delta_type)
        sq == pow_half(QQ(expiry - EvalDate, DaysPerYear))
    IN  (Contains(Str_pa, dt) /\ Len(nodes) > 0 /\ ~sq.complex)
            => QLe(upper_bound(dt, nodes, sq), QI(4))

IsPaType(delta_type) == Contains(Str_pa, lower(delta_type))

VARIABLES smile, res

vars == <<smile, res>>

Idle == [op |-> "", args |-> <<>>, err |-> "", val |-> <<>>]
Result(op, args, r) == [op |-> op, args |-> args, err |-> r.err, val |-> r.val]

Init == smile = NoSmile /\ res = Idle

Construct ==
    /\ ~smile.exists /\ res = Idle
    /\ \E nodes \in NodeInputs, expiry \in ExpiryDates, dt \in TypeStrings, ad \in AdInputs :
        LET r == __init__(nodes, EvalDate, expiry, dt, ad)
        IN  /\ Explored(nodes, expiry, dt)
            /\ smile' = r.self
            /\ res' = [op |-> "__init__",
                       args |-> [nodes |-> nodes, expiry |-> expiry,
                                 delta_type |-> dt, ad |-> ad],
                       err |-> r.err, val |-> <<>>, csolves |-> r.csolves]

SetAdOrder ==
    /\ smile.exists /\ res = Idle
    /\ \E order \in AdInputs :
        LET r == _set_ad_order(smile, order)
        IN  /\ smile' = r.self
            /\ res' = [op |-> "_set_ad_order", args |-> [order |-> order],
                       err |-> r.err, val |-> <<>>, csolves |-> r.csolves]

GetItem ==
    /\ smile.exists /\ res = Idle
    /\ \E item \in LookupGrid :
        /\ res' = Result("__getitem__", [item |-> item], __getitem__(smile, item))
        /\ UNCHANGED smile

Get ==
    /\ smile.exists /\ res = Idle
    /\ \E delta \in {<<-1, 4>>, <<3, 4>>}, dt \in TypeInputs, phi \in PhiInputs,
          w \in {<<<<1, 2>>, <<3, 4>>>>} :
        /\ res' = Result("get",
                         [delta |-> delta, delta_type |-> dt, phi |-> phi,
                          w_deli |-> w[1], w_spot |-> w[2]],
                         get(smile, delta, dt, phi, w[1], w[2]))
        /\ UNCHANGED smile

ConvertDelta ==
    /\ smile.exists /\ res = Idle
    /\ \E delta \in DeltaInputs, dt \in TypeStrings, phi \in PhiInputs, w \in WInputs :
        /\ res' = Result("_convert_delta",
                         [delta |-> delta, delta_type |-> dt, phi |-> phi,
                          w_deli |-> w[1], w_spot |-> w[2]],
                         _convert_delta(smile, delta, dt, phi, w[1], w[2]))
        /\ UNCHANGED smile

DeltaIndex ==
    /\ smile.exists /\ res = Idle
    /\ \E delta \in DeltaInputs, phi \in PhiInputs, w \in WInputs, u \in UInputs :
        /\ res' = [op |-> "_delta_index_from_call_or_put_delta",
                   args |-> [delta |-> delta, phi |-> phi,
                             z_w |-> QDiv(w[1], w[2]), u |-> u],
                   err |-> "",
                   val |-> <<_delta_index_from_call_or_put_delta(
                                smile, delta, phi, QDiv(w[1], w[2]), u)>>]
        /\ UNCHANGED smile

CallToPut ==
    /\ smile.exists /\ res = Idle
    /\ \E delta \in DeltaInputs, dt \in TypeInputs, w \in WInputs, u \in UInputs :
        /\ res' = Result("_call_to_put_delta",
                         [delta |-> delta, delta_type |-> dt,
                          z_w |-> QDiv(w[1], w[2]), u |-> u],
                         _call_to_put_delta(smile, delta, dt, QDiv(w[1], w[2]), u))
        /\ UNCHANGED smile

ConvertSameAdjustment ==
    /\ res = Idle
    /\ \E delta \in DeltaInputs, from \in TypeStrings, to \in TypeStrings, w \in WInputs :
        /\ res' = Result("_convert_same_adjustment_delta",
                         [delta |-> delta, from_delta_type |-> from,
                          to_delta_type |-> to, w_deli |-> w[1], w_spot |-> w[2]],
                         _convert_same_adjustment_delta(delta, from, to, w[1], w[2]))
        /\ UNCHANGED smile

\* The caller takes the result (or the exception) of the last call.
Return ==
    /\ res # Idle
    /\ res' = Idle
    /\ UNCHANGED smile

Next ==
    \/ Construct
    \/ SetAdOrder
    \/ GetItem
    \/ Get
    \/ Return

Spec == Init /\ [][Next]_vars

(***************************************************************************)
(* The delta conversions alone, on a Smile of each delta type.             *)
(***************************************************************************)
InitConv ==
    /\ res = Idle
    /\ \E dt \in TypeInputs :
        smile = __init__(<<[k |-> <<1, 2>>, v |-> Float(QI(50))],
                           [k |-> Q1, v |-> Float(QI(25))]>>,
                         EvalDate, 5 * DaysPerYear, dt, 0).self

NextConv ==
    \/ ConvertDelta
    \/ DeltaIndex
    \/ CallToPut
    \/ ConvertSameAdjustment
    \/ Return

SpecConv == InitConv /\ [][NextConv]_vars

(***************************************************************************)
(* The operations of a constructed Smile, get_from_strike included, from   *)
(* the state a construction leaves.                                        *)
(***************************************************************************)
\* Node sets of one, two and three nodes; strikes, forward and discount
\* factors whose moneyness and basis factor are floats of the solver.
StrikeNodes ==
    {<<[k |-> <<1, 2>>, v |-> Float(QI(25))]>>,
     <<[k |-> <<1, 2>>, v |-> Float(QI(50))], [k |-> Q1, v |-> Float(QI(25))]>>,
     <<[k |-> Q0, v |-> Float(QI(50))], [k |-> <<1, 2>>, v |-> Float(QI(25))],
       [k |-> Q1, v |-> Float(QI(50))]>>}
StrikeInputs == {Q1, <<5, 4>>, <<3, 2>>}
ForwardInput == Q1
StrikeWInputs == {<<Q1, Q1>>, <<<<3, 4>>, Q1>>}

InitStrike ==
    \E nodes \in StrikeNodes, dt \in TypeInputs :
        LET r == __init__(nodes, EvalDate, 5 * DaysPerYear, dt, 0)
        IN  /\ IsPaType(dt) => Len(nodes) <= 2
            /\ r.err = ""
            /\ smile = r.self
            /\ res = [op |-> "__init__",
                      args |-> [nodes |-> nodes, expiry |-> 5 * DaysPerYear,
                                delta_type |-> dt, ad |-> 0],
                      err |-> r.err, val |-> <<>>, csolves |-> r.csolves]

GetFromStrike ==
    /\ smile.exists /\ res = Idle
    /\ \E k \in StrikeInputs, phi \in PhiInputs, w \in StrikeWInputs :
        \E r \in {get_from_strike(smile, k, phi, ForwardInput, w[1], w[2])} :
            /\ res' = [op |-> "get_from_strike",
                       args |-> [k |-> k, phi |-> phi, f |-> ForwardInput,
                                 w_deli |-> w[1], w_spot |-> w[2]],
                       err |-> r.err, val |-> r.val,
                       raised_by |-> r.raised_by, calls |-> r.calls]
            /\ smile' = r.self

NextStrike ==
    \/ SetAdOrder
    \/ GetItem
    \/ Get
    \/ GetFromStrike
    \/ Return

SpecStrike == InitStrike /\ [][NextStrike]_vars

(***************************************************************************)
(* The Newton solver alone, on root and root_deriv of a Smile, from given  *)
(* starts and under given iteration caps and tolerances.                   *)
(***************************************************************************)
StartInputs == {<<-3, 4>>, <<-7, 16>>, <<-1, 4>>, <<1, 4>>, <<9, 16>>, <<5, 4>>}
MaxIterInputs == {0, 1, 2, DefaultMaxIter}
ToleranceInputs == {DefaultTolerance, <<1, 8>>}

Newton ==
    /\ smile.exists /\ res = Idle
    /\ \E x0 \in StartInputs, max_iter \in MaxIterInputs,
          tolerance \in ToleranceInputs, phi \in PhiInputs, u \in {Q1, <<5, 4>>} :
        LET pa == Contains(Str_pa, smile.delta_type)
            fn == [self |-> smile, phi |-> phi,
                   p_m |-> IF pa THEN <<-1, 2>> ELSE <<1, 2>>]
            args == [u |-> u, sqrt_t |-> smile.t_expiry_sqrt.q,
                     z_u |-> IF pa THEN u ELSE Q1, z_w |-> Q1, ad |-> 0]
        IN  \E r \in {_newton(fn, x0, max_iter, tolerance, args)} :
                res' = [op |-> "_newton",
                        args |-> [x0 |-> x0, max_iter |-> max_iter,
                                  tolerance |-> tolerance, phi |-> phi, u |-> u],
                        err |-> r.err, val |-> r.val, raised_by |-> r.raised_by,
                        steps |-> r.steps, trace |-> r.trace, evals |-> r.evals]
    /\ UNCHANGED smile

NextNewton ==
    \/ Newton
    \/ Return

SpecNewton == InitStrike /\ [][NextNewton]_vars

(***************************************************************************)
(* Variable (rateslib.dual.variable): an exogenous variable that becomes a *)
(* Dual or a Dual2 when it meets one, or by the global order when it meets *)
(* another Variable.  A number is a record of its Python type, its real    *)
(* part, its labels and its first-order coefficients.                      *)
(***************************************************************************)
Number(type, real, labels, dual) ==
    [type |-> type, real |-> real, vars |-> labels, dual |-> dual]
PyFloat(q) == Number("float", q, <<>>, <<>>)
PyInt(i) == Number("int", QI(i), <<>>, <<>>)
PyStr == Number("str", Q0, <<>>, <<>>)
PyNone == Number("NoneType", Q0, <<>>, <<>>)
IsFloatOrInt(x) == x.type \in {"float", "int"}
Ones(n) == ToSeq([i \in 1..n |-> Q1])
Scaled(dual, q) == ToSeq([i \in 1..Len(dual) |-> QMul(dual[i], q)])
Returns(x) == [err |-> "", val |-> <<x>>]
Raises(err) == [err |-> err, val |-> <<>>]

\* Variable(real, labels, dual); no dual given is <<>>.
Variable(real, labels, dual) ==
    Number("Variable", real, labels, IF Len(dual) = 0 THEN Ones(Len(labels)) ELSE dual)

\* Dual and Dual2 of rateslib.rs and their arithmetic: the result of an
\* operation on two numbers of one type is of that type, carries the labels
\* of both operands and the first-order coefficients of the sum, product or
\* quotient.
Dual(real, labels, dual) == Number("Dual", real, labels, dual)
Dual2(real, labels, dual) == Number("Dual2", real, labels, dual)
Coefficient(x, label) ==
    IF \E i \in 1..Len(x.vars) : x.vars[i] = label
    THEN x.dual[CHOOSE i \in 1..Len(x.vars) : x.vars[i] = label]
    ELSE Q0
JoinVars(a, b) ==
    a \o SelectSeq(b, LAMBDA label : \A i \in 1..Len(a) : a[i] # label)
dual_arith(op, a, b) ==
    LET labels == JoinVars(a.vars, b.vars)
        real == CASE op = "add" -> QAdd(a.real, b.real)
                  [] op = "mul" -> QMul(a.real, b.real)
                  [] op = "truediv" -> QDiv(a.real, b.real)
        grad(label) ==
            LET da == Coefficient(a, label)
                db == Coefficient(b, label)
            IN  CASE op = "add" -> QAdd(da, db)
                  [] op = "mul" -> QAdd(QMul(da, b.real), QMul(a.real, db))
                  [] op = "truediv" ->
                        QDiv(QSub(QMul(da, b.real), QMul(a.real, db)),
                             QMul(b.real, b.real))
    IN  IF a.type # b.type THEN Raises("TypeError")
        ELSE Returns(Number(a.type, real, labels,
                            ToSeq([i \in 1..Len(labels) |-> grad(labels[i])])))
dual_neg(x) == Number(x.type, QNeg(x.real), x.vars, Scaled(x.dual, QI(-1)))

\* Variable._to_dual_type(order)
_to_dual_type(self, order) ==
    IF order = 1 THEN Returns(Dual(self.real, self.vars, self.dual))
    ELSE IF order = 2 THEN Returns(Dual2(self.real, self.vars, self.dual))
    ELSE Raises("TypeError")

\* The branch of __add__, __mul__ and __truediv__ for another Variable: both
\* are converted at the global order.
variable_with_variable(op, self, other, _global_ad_order) ==
    LET dual_1 == _to_dual_type(self, _global_ad_order)
        dual_2 == _to_dual_type(other, _global_ad_order)
    IN  IF dual_1.err # "" THEN dual_1
        ELSE IF dual_2.err # "" THEN dual_2
        ELSE dual_arith(op, dual_1.val[1], dual_2.val[1])

\* Variable.__neg__()
__neg__(self) == Variable(QNeg(self.real), self.vars, Scaled(self.dual, QI(-1)))

\* Variable.__add__(other)
__add__(self, other, _global_ad_order) ==
    IF other.type = "Variable"
    THEN variable_with_variable("add", self, other, _global_ad_order)
    ELSE IF IsFloatOrInt(other)
    THEN Returns(Variable(QAdd(self.real, other.real), self.vars, self.dual))
    ELSE IF other.type = "Dual"
    THEN dual_arith("add", Dual(self.real, self.vars, self.dual), other)
    ELSE IF other.type = "Dual2"
    THEN dual_arith("add", Dual2(self.real, self.vars, self.dual), other)
    ELSE Raises("TypeError")

\* Variable.__radd__(other)
__radd__(self, other, _global_ad_order) == __add__(self, other, _global_ad_order)

\* Variable.__rsub__(other)
__rsub__(self, other, _global_ad_order) ==
    __add__(__neg__(self), other, _global_ad_order)

\* other.__neg__() as Variable.__sub__ calls it: a str or None has no such
\* attribute.
neg_of(other) ==
    IF other.type = "Variable" THEN Returns(__neg__(other))
    ELSE IF IsFloatOrInt(other)
    THEN Returns(Number(other.type, QNeg(other.real), <<>>, <<>>))
    ELSE IF other.type \in {"Dual", "Dual2"} THEN Returns(dual_neg(other))
    ELSE Raises("AttributeError")

\* Variable.__sub__(other)
__sub__(self, other, _global_ad_order) ==
    LET negated == neg_of(other)
    IN  IF negated.err # "" THEN negated
        ELSE __add__(self, negated.val[1], _global_ad_order)

\* Variable.__mul__(other)
__mul__(self, other, _global_ad_order) ==
    IF other.type = "Variable"
    THEN variable_with_variable("mul", self, other, _global_ad_order)
    ELSE IF IsFloatOrInt(other)
    THEN Returns(Variable(QMul(self.real, other.real), self.vars,
                          Scaled(self.dual, other.real)))
    ELSE IF other.type = "Dual"
    THEN dual_arith("mul", Dual(self.real, self.vars, self.dual), other)
    ELSE IF other.type = "Dual2"
    THEN dual_arith("mul", Dual2(self.real, self.vars, self.dual), other)
    ELSE Raises("TypeError")

\* Variable.__rmul__(other)
__rmul__(self, other, _global_ad_order) == __mul__(self, other, _global_ad_order)

\* Variable.__truediv__(other)
__truediv__(self, other, _global_ad_order) ==
    IF other.type = "Variable"
    THEN variable_with_variable("truediv", self, other, _global_ad_order)
    ELSE IF IsFloatOrInt(other)
    THEN IF other.real = Q0 THEN Raises("ZeroDivisionError")
         ELSE Returns(Variable(QDiv(self.real, other.real), self.vars,
                               Scaled(self.dual, QDiv(Q1, other.real))))
    ELSE IF other.type = "Dual"
    THEN dual_arith("truediv", Dual(self.real, self.vars, self.dual), other)
    ELSE IF other.type = "Dual2"
    THEN dual_arith("truediv", Dual2(self.real, self.vars, self.dual), other)
    ELSE Raises("TypeError")

\* Variable.__rtruediv__(other): other / self
__rtruediv__(self, other, _global_ad_order) ==
    IF other.type = "Variable" THEN Raises("TypeError")
    ELSE IF IsFloatOrInt(other)
    THEN __truediv__(Variable(other.real, <<>>, <<>>), self, _global_ad_order)
    ELSE IF other.type = "Dual"
    THEN dual_arith("truediv", other, Dual(self.real, self.vars, self.dual))
    ELSE IF other.type = "Dual2"
    THEN dual_arith("truediv", other, Dual2(self.real, self.vars, self.dual))
    ELSE Raises("TypeError")

\* Operands: two Variables, plain numbers, a Dual and a Dual2 sharing a label
\* with the first Variable, and two objects that are no numbers.
VariableInputs ==
    {Variable(QI(2), <<"x">>, <<>>), Variable(<<3, 2>>, <<"y">>, <<>>)}
OtherInputs ==
    VariableInputs \cup
    {PyFloat(<<1, 2>>), PyFloat(QI(4)), PyInt(3),
     Dual(QI(5), <<"x", "z">>, <<Q1, QI(2)>>),
     Dual2(QI(5), <<"z">>, <<QI(3)>>),
     PyStr, PyNone}
GlobalOrders == {0, 1, 2}

VariableResult(op, self, other, order, r) ==
    [op |-> op, args |-> [self |-> self, other |-> other, order |-> order],
     err |-> r.err, val |-> r.val]

\* self + other
Add ==
    /\ res = Idle
    /\ \E self \in VariableInputs, other \in OtherInputs, g \in GlobalOrders :
        res' = VariableResult("__add__", self, other, g, __add__(self, other, g))
    /\ UNCHANGED smile

\* self - other
Sub ==
    /\ res = Idle
    /\ \E self \in VariableInputs, other \in OtherInputs, g \in GlobalOrders :
        res' = VariableResult("__sub__", self, other, g, __sub__(self, other, g))
    /\ UNCHANGED smile

\* self * other
Mul ==
    /\ res = Idle
    /\ \E self \in VariableInputs, other \in OtherInputs, g \in GlobalOrders :
        res' = VariableResult("__mul__", self, other, g, __mul__(self, other, g))
    /\ UNCHANGED smile

\* self / other
TrueDiv ==
    /\ res = Idle
    /\ \E self \in VariableInputs, other \in OtherInputs, g \in GlobalOrders :
        res' = VariableResult("__truediv__", self, other, g,
                              __truediv__(self, other, g))
    /\ UNCHANGED smile

\* other + self, other - self, other * self and other / self for a plain
\* number other, whose own method returns NotImplemented so that Python
\* calls the reflected method of the Variable.
Reflected ==
    /\ res = Idle
    /\ \E self \in VariableInputs, other \in {x \in OtherInputs : IsFloatOrInt(x)},
          g \in GlobalOrders :
        \/ res' = VariableResult("__radd__", self, other, g, __radd__(self, other, g))
        \/ res' = VariableResult("__rsub__", self, other, g, __rsub__(self, other, g))
        \/ res' = VariableResult("__rmul__", self, other, g, __rmul__(self, other, g))
        \/ res' = VariableResult("__rtruediv__", self, other, g,
                                 __rtruediv__(self, other, g))
    /\ UNCHANGED smile

InitVar == smile = NoSmile /\ res = Idle

NextVar ==
    \/ Add
    \/ Sub
    \/ Mul
    \/ TrueDiv
    \/ Reflected
    \/ Return

SpecVar == InitVar /\ [][NextVar]_vars

(***************************************************************************)
(* Properties.                                                             *)
(***************************************************************************)
lower_bound_of(self) == self.t[1]
upper_bound_of(self) == Last(self.t)
InBounds(self, x) == QLe(lower_bound_of(self), x) /\ QLe(x, upper_bound_of(self))
IsPa(delta_type) == delta_type \in {Str_forward_pa, Str_spot_pa}

\* C1: lookup(x) fails with OutOfRange (a ValueError) exactly when x is below
\* the first knot or above the last knot; for every x inside the bounds, the
\* bounds included, it returns the spline evaluated at x itself.
C1_LookupInsideBoundsOnly ==
    res.op = "__getitem__" =>
        LET x == res.args.item IN
        /\ (res.err = "ValueError") <=>
                (QLt(x, lower_bound_of(smile)) \/ QLt(upper_bound_of(smile), x))
        /\ res.err \in {"", "ValueError"}
        /\ res.err = "ValueError" => res.val = <<>>
        /\ res.err = "" => res.val = <<ppev_single(smile.spline, x)>>

\* A lookup exactly at an upper bound above 1 returned a value.
C1_Witness ==
    /\ res.op = "__getitem__"
    /\ res.args.item = upper_bound_of(smile)
    /\ QLt(Q1, upper_bound_of(smile))
    /\ res.err = "" /\ Len(res.val) = 1

\* C2: the knot sequence of a Smile with n >= 1 nodes is four copies of the
\* lower bound, the node keys other than the first and the last when
\* n >= 3, and four copies of the upper bound: 8 + max(0, n - 2) knots.
C2_KnotSequence ==
    smile.exists =>
        LET n == Len(smile.nodes)
            m == IF n >= 3 THEN n - 2 ELSE 0
            ub == upper_bound(smile.delta_type, smile.nodes, smile.t_expiry_sqrt)
        IN  /\ n >= 1
            /\ Len(smile.t) = 8 + m
            /\ \A i \in 1..4 : smile.t[i] = Q0
            /\ \A i \in 1..m : smile.t[4 + i] = smile.nodes[i + 1].k
            /\ \A i \in 1..4 : smile.t[4 + m + i] = ub

\* A premium-adjusted Smile of three nodes with its one interior knot.
C2_Witness ==
    /\ smile.exists
    /\ Len(smile.nodes) = 3
    /\ IsPa(smile.delta_type)
    /\ Len(smile.t) = 9

\* C3: every calibration hands the solver a constraint list whose first entry
\* is (lower bound, 0) and whose last entry is (upper bound, 0), both taken
\* as second-derivative constraints, and the fitted curve's second derivative
\* is zero at both bounds.
C3_NaturalBoundary ==
    smile.exists =>
        LET sp == smile.spline
            last == Len(sp.tau)
        IN  /\ last >= 2 /\ Len(sp.y) = last
            /\ sp.tau[1] = lower_bound_of(smile) /\ sp.y[1].real = Q0
            /\ sp.left_n = 2
            /\ sp.tau[last] = upper_bound_of(smile) /\ sp.y[last].real = Q0
            /\ sp.right_n = 2
            /\ sp.y[1].order = smile.ad /\ sp.y[last].order = smile.ad
            /\ sp.solved
            /\ ppdnev_single(sp, lower_bound_of(smile), 2) = Q0
            /\ ppdnev_single(sp, upper_bound_of(smile), 2) = Q0

\* A single-node Smile recalibrated at second order.
C3_Witness ==
    /\ smile.exists
    /\ Len(smile.nodes) = 1
    /\ smile.ad = 2
    /\ res.op = "_set_ad_order" /\ res.err = ""
    /\ smile.spline.variant = "PPSplineDual2"

\* The arguments of a construction that the data model admits: a valid
\* derivative order, an expiry not before the evaluation date, strictly
\* increasing keys inside the bounds.
AdmissibleInit(args) ==
    /\ args.ad \in {0, 1, 2}
    /\ args.expiry >= EvalDate
    /\ Len(args.nodes) >= 1
    /\ IsSortedSeq(Keys(args.nodes))
    /\ \A i \in 1..Len(args.nodes) :
        /\ QLe(Q0, args.nodes[i].k)
        /\ QLe(args.nodes[i].k,
               upper_bound(lower(args.delta_type), args.nodes,
                           pow_half(QQ(args.expiry - EvalDate, DaysPerYear))))

\* C4: a Smile built from a single node (k, v) returns v from lookup(x) for
\* every x in the bounds, for every admissible key k, the lower bound
\* included: the fit is a flat line, never a singular system.
C4_SingleNodeFlat ==
    (res.op = "__init__" /\ AdmissibleInit(res.args) /\ Len(res.args.nodes) = 1) =>
        /\ res.err = ""
        /\ smile.exists
        /\ \A x \in LookupGrid :
            InBounds(smile, x) =>
                __getitem__(smile, x) = [err |-> "", val |-> <<res.args.nodes[1].v.real>>]

\* C5: for every valid node set and derivative order, lookup at each node
\* key returns that key's volatility.
C5_NodeInterpolation ==
    (res.op = "__init__" /\ AdmissibleInit(res.args)) =>
        /\ res.err = ""
        /\ smile.exists
        /\ \A i \in 1..Len(res.args.nodes) :
            __getitem__(smile, res.args.nodes[i].k) =
                [err |-> "", val |-> <<res.args.nodes[i].v.real>>]

\* C6: every Smile that construction accepts, and every state reached from
\* it, has at least one node, strictly increasing node keys, and every node
\* key inside the bounds.
C6_NodeInvariant ==
    smile.exists =>
        /\ Len(smile.nodes) >= 1
        /\ IsSortedSeq(Keys(smile.nodes))
        /\ \A i \in 1..Len(smile.nodes) : InBounds(smile, smile.nodes[i].k)

\* C7: get(delta, delta_type, sign, basis factors) returns exactly lookup(i)
\* for the index delta i the given delta converts to; it returns a
\* volatility whenever that index lies inside the bounds.
C7_GetIsLookupOfIndex ==
    res.op = "get" =>
        LET i == _convert_delta(smile, res.args.delta, res.args.delta_type,
                                res.args.phi, res.args.w_deli, res.args.w_spot)
        IN  i.err = "" =>
                /\ [err |-> res.err, val |-> res.val] = __getitem__(smile, i.val[1])
                /\ InBounds(smile, i.val[1]) => (res.err = "" /\ Len(res.val) = 1)

\* The call-to-put offset of each delta type.
ParityOffset(delta_type, z_w, u) ==
    CASE delta_type = Str_forward -> Q1
      [] delta_type = Str_spot -> z_w
      [] delta_type = Str_forward_pa -> u
      [] delta_type = Str_spot_pa -> QMul(z_w, u)

\* C8: the index delta of an option delta d of the Smile's own type is the
\* negated put delta, -d for a put and -(d - c) for a call with c = 1,
\* spot_forward_ratio, moneyness or their product by type; the index of the
\* solver's root function and the index of the returned result (through the
\* call-to-put conversion) agree.
C8_IndexIsNegatedPutDelta ==
    res.op = "_delta_index_from_call_or_put_delta" =>
        LET a == res.args
            c == ParityOffset(smile.delta_type, a.z_w, a.u)
            returned == IF a.phi > 0
                        THEN QMul(QI(-1),
                                  _call_to_put_delta(smile, a.delta, smile.delta_type,
                                                     a.z_w, a.u).val[1])
                        ELSE QMul(QI(-1), a.delta)
        IN  /\ res.val[1] = IF a.phi > 0 THEN QNeg(QSub(a.delta, c)) ELSE QNeg(a.delta)
            /\ res.val[1] = returned

\* The index of a call of a spot premium-adjusted Smile, with a basis factor
\* and a moneyness other than 1.
C8_Witness ==
    /\ res.op = "_delta_index_from_call_or_put_delta"
    /\ smile.delta_type = Str_spot_pa
    /\ res.args.phi = 1
    /\ res.args.z_w # Q1 /\ res.args.u # Q1

IsUnadjusted(delta_type) == delta_type \in {Str_forward, Str_spot}
InUnitInterval(d) == QLt(Q0, d) /\ QLt(d, Q1)

\* C9: for unadjusted conventions and every delta d in (0,1), a call with
\* delta d and the put with delta d - 1 (forward) or d - spot_forward_ratio
\* (spot) convert to the same index delta, by the own-type index conversion
\* and by the general delta conversion.
C9_CallPutParity ==
    /\ (/\ res.op = "_convert_delta"
        /\ res.args.phi > 0
        /\ InUnitInterval(res.args.delta)
        /\ IsUnadjusted(smile.delta_type)
        /\ IsUnadjusted(res.args.delta_type)) =>
            LET a == res.args
                c == ParityOffset(a.delta_type, QDiv(a.w_deli, a.w_spot), Q1)
                put == _convert_delta(smile, QSub(a.delta, c), a.delta_type, -1,
                                      a.w_deli, a.w_spot)
            IN  res.err = "" /\ put = [err |-> "", val |-> res.val]
    /\ (/\ res.op = "_delta_index_from_call_or_put_delta"
        /\ res.args.phi > 0
        /\ InUnitInterval(res.args.delta)
        /\ IsUnadjusted(smile.delta_type)) =>
            LET a == res.args
                c == ParityOffset(smile.delta_type, a.z_w, a.u)
            IN  _delta_index_from_call_or_put_delta(
                    smile, QSub(a.delta, c), -1, a.z_w, a.u) = res.val[1]

\* A spot call converted for a forward Smile with a basis factor other than 1.
C9_Witness ==
    /\ res.op = "_convert_delta"
    /\ res.args.phi > 0
    /\ InUnitInterval(res.args.delta)
    /\ smile.delta_type = Str_forward
    /\ res.args.delta_type = Str_spot
    /\ res.args.w_deli # res.args.w_spot
    /\ res.err = ""

SameFamily(a, b) == IsPa(a) <=> IsPa(b)
IsSpotBasis(delta_type) == delta_type \in {Str_spot, Str_spot_pa}

Convention(delta_type) ==
    CASE delta_type \in {Str_spot, Str_SPOT} -> Str_spot
      [] delta_type = Str_forward -> Str_forward
      [] delta_type \in {Str_forward_pa, Str_Forward_PA} -> Str_forward_pa
      [] delta_type = Str_spot_pa -> Str_spot_pa
      [] OTHER -> <<>>

\* C11: every conversion between a premium-adjusted and an unadjusted delta
\* type, in either direction, fails with a NotImplemented error and returns
\* no value, in the Smile's delta conversion and in the standalone
\* same-adjustment conversion.
C11_CrossAdjustmentNotImplemented ==
    /\ (/\ res.op = "_convert_delta"
        /\ res.args.delta_type \in TypeInputs
        /\ ~SameFamily(res.args.delta_type, smile.delta_type)) =>
            (res.err = "NotImplementedError" /\ res.val = <<>>)
    /\ (/\ res.op = "_convert_same_adjustment_delta"
        /\ res.args.from_delta_type \in TypeInputs
        /\ res.args.to_delta_type \in TypeInputs
        /\ ~SameFamily(res.args.from_delta_type, res.args.to_delta_type)) =>
            (res.err = "NotImplementedError" /\ res.val = <<>>)

\* C12: on a premium-adjusted Smile, converting an option delta given in a
\* premium-adjusted type to the index delta succeeds; only a delta of the
\* unadjusted family is rejected.
C12_PremiumAdjustedConverts ==
    (/\ res.op = "_convert_delta"
     /\ IsPa(smile.delta_type)
     /\ res.args.delta_type \in TypeInputs) =>
        IF IsPa(res.args.delta_type)
        THEN res.err = "" /\ Len(res.val) = 1
        ELSE res.err = "NotImplementedError"

\* C13: constructing a Smile with a delta-type string that matches none of
\* the four conventions in any letter case fails with InvalidConvention (a
\* ValueError) and yields no Smile; a string that matches in some letter
\* case is accepted as the lower-case convention: the construction ends as
\* it does for the lower-case string and the stored delta_type is lower-case.
C13_ConstructionValidatesType ==
    res.op = "__init__" =>
        LET a == res.args
            named == Convention(a.delta_type)
        IN  IF named = <<>>
            THEN res.err = "ValueError" /\ ~smile.exists
            ELSE LET canon == __init__(a.nodes, EvalDate, a.expiry, named, a.ad)
                 IN  /\ res.err = canon.err
                     /\ smile = canon.self
                     /\ smile.exists => smile.delta_type = named

\* A Smile constructed from "Forward_PA" stores "forward_pa".
C13_Witness ==
    /\ res.op = "__init__"
    /\ res.args.delta_type = Str_Forward_PA
    /\ res.err = ""
    /\ smile.exists /\ smile.delta_type = Str_forward_pa

\* C14: at conversion time every delta-type string of the caller is
\* validated case-insensitively: an unrecognized string fails with
\* InvalidConvention (a ValueError), a recognized string in another letter
\* case gives the result of the convention it names.
C14_ConversionValidatesType ==
    /\ res.op = "_convert_delta" =>
        LET a == res.args
            named == Convention(a.delta_type)
        IN  IF named = <<>>
            THEN res.err = "ValueError" /\ res.val = <<>>
            ELSE [err |-> res.err, val |-> res.val] =
                    _convert_delta(smile, a.delta, named, a.phi, a.w_deli, a.w_spot)
    /\ res.op = "_convert_same_adjustment_delta" =>
        LET a == res.args
            from == Convention(a.from_delta_type)
            to == Convention(a.to_delta_type)
        IN  IF from = <<>> \/ to = <<>>
            THEN res.err = "ValueError" /\ res.val = <<>>
            ELSE [err |-> res.err, val |-> res.val] =
                    _convert_same_adjustment_delta(a.delta, from, to, a.w_deli, a.w_spot)

\* C15: the lower bound of every Smile is 0; the upper bound is 1 for the
\* forward and spot types and, for the premium-adjusted types, the closed
\* form exp(v sqrt(T) (4.75 + 0.5 v sqrt(T))) of the last node's volatility
\* v (divided by 100) and the time to expiry T, fixed at construction.
C15_Bounds ==
    smile.exists =>
        LET v == QDiv(smile.nodes[Len(smile.nodes)].v.real, QI(100))
            sqrt_t == smile.t_expiry_sqrt.q
            x == QMul(QMul(v, sqrt_t),
                      QAdd(<<19, 4>>, QMul(QMul(<<1, 2>>, v), sqrt_t)))
        IN  /\ lower_bound_of(smile) = Q0
            /\ \A i \in 1..4 : smile.t[i] = Q0
            /\ smile.t_expiry = QQ(smile.expiry - smile.eval_date, 365)
            /\ IsPa(smile.delta_type) =>
                /\ QMul(sqrt_t, sqrt_t) = smile.t_expiry
                /\ upper_bound_of(smile) = dual_exp(x)
            /\ ~IsPa(smile.delta_type) => upper_bound_of(smile) = Q1

\* A premium-adjusted Smile whose first and last volatilities differ, after
\* a change of derivative order.
C15_Witness ==
    /\ smile.exists
    /\ IsPa(smile.delta_type)
    /\ Len(smile.nodes) >= 2
    /\ smile.nodes[1].v.real # smile.nodes[Len(smile.nodes)].v.real
    /\ res.op = "_set_ad_order" /\ res.err = "" /\ smile.ad = 1

(***************************************************************************)
(* Querying the Smile by strike.                                           *)
(***************************************************************************)
StrikeReturned == res.op = "get_from_strike" /\ res.err = ""
SolvedDelta == res.calls[Len(res.calls)].val[1]
StrikeRatio ==
    IF IsSpotBasis(smile.delta_type) THEN QDiv(res.args.w_deli, res.args.w_spot) ELSE Q1

\* C16: whenever get_from_strike(k, phi, f, w_deli, w_spot) returns, it
\* returns a triple (index delta, volatility, strike) whose strike is k
\* unchanged, whose index delta is the negated put delta of the solved option
\* delta (a call's solved delta first taken to a put delta by the parity of
\* the Smile's type), whose index delta lies within [lower bound, upper
\* bound], and whose volatility is the lookup at that index delta.
C16_StrikeTriple ==
    StrikeReturned =>
        LET put_delta == IF res.args.phi > 0
                         THEN QSub(SolvedDelta,
                                   ParityOffset(smile.delta_type, StrikeRatio,
                                                QDiv(res.args.k, res.args.f)))
                         ELSE SolvedDelta
        IN  /\ Len(res.val) = 3
            /\ res.val[3] = res.args.k
            /\ res.val[1] = QNeg(put_delta)
            /\ InBounds(smile, res.val[1])
            /\ res.val[2] = ppev_single(smile.spline, res.val[1])

\* A call on a spot-type Smile with a spot/forward ratio other than one has
\* returned, at an index delta strictly inside the bounds.
C16_Witness ==
    /\ StrikeReturned
    /\ res.args.phi > 0
    /\ IsSpotBasis(smile.delta_type)
    /\ StrikeRatio # Q1
    /\ QLt(lower_bound_of(smile), res.val[1])
    /\ QLt(res.val[1], upper_bound_of(smile))

\* The closed-form delta of the queried strike at the flat volatility vol
\* (in percent), and the first guess of the solved delta: that delta at the
\* volatility of the middle node.
GuessAtVol(vol) ==
    LET u == QDiv(res.args.k, res.args.f)
        pa == IsPa(smile.delta_type)
        vol_sqrt_t == QMul(QDiv(vol, QI(100)), smile.t_expiry_sqrt.q)
        d_plus_min == QAdd(QDiv(QNeg(dual_log(u)), vol_sqrt_t),
                           QMul(IF pa THEN <<-1, 2>> ELSE <<1, 2>>, vol_sqrt_t))
    IN  fl(QMul(QMul(QMul(IF pa THEN u ELSE Q1, QI(res.args.phi)), StrikeRatio),
                dual_norm_cdf(QMul(QI(res.args.phi), d_plus_min))))

ClosedFormGuess == GuessAtVol(smile.nodes[(smile.n \div 2) + 1].v.real)

\* C17: get_from_strike runs its solver in two phases. The first call of
\* _newton is the plain solve (ad = 0, at most 50 iterations) started from
\* the closed-form guess; a second call is made only when the first has
\* returned a root, and is a single step (max_iter = 1) from that root with
\* tracked arguments (ad = 1); there is never a third call, and every
\* successful query has made exactly these two calls.
C17_TwoPhaseSolve ==
    res.op = "get_from_strike" =>
        LET calls == res.calls
        IN  /\ Len(calls) <= 2
            /\ Len(calls) >= 1 =>
                /\ calls[1].ad = 0
                /\ calls[1].max_iter = DefaultMaxIter
                /\ calls[1].x0 = ClosedFormGuess
                /\ calls[1].steps \in 1..DefaultMaxIter
            /\ Len(calls) = 2 =>
                /\ calls[1].err = ""
                /\ calls[2].ad = 1
                /\ calls[2].max_iter = 1
                /\ calls[2].x0 = calls[1].val[1]
                /\ calls[2].steps = 1
            /\ res.err = "" => (Len(calls) = 2 /\ calls[2].err = "")

\* A query has returned whose plain solve took more than one iteration and
\* moved away from the closed-form guess.
C17_Witness ==
    /\ StrikeReturned
    /\ res.calls[1].steps > 1
    /\ res.calls[2].x0 # res.calls[1].x0

\* The plain solve has used up its 50 iterations without a step below the
\* tolerance: _newton itself has raised.
PlainSolveDiverged ==
    /\ res.op = "get_from_strike"
    /\ Len(res.calls) >= 1
    /\ res.calls[1].err = "ValueError"
    /\ res.calls[1].raised_by = "_newton"

\* C18: when the plain solve of get_from_strike has made 50 iterations
\* without a step smaller than the tolerance, the query fails with the
\* solver's error: the error reaches the caller, no triple is returned, the
\* corrective step is not run, and the solve is not run again with another
\* tolerance, iteration cap or starting point.
C18_DivergenceIsFatal ==
    PlainSolveDiverged =>
        /\ res.err = "ValueError"
        /\ res.raised_by = "_newton"
        /\ res.val = <<>>
        /\ Len(res.calls) = 1
        /\ res.calls[1].steps = DefaultMaxIter
        /\ res.calls[1].max_iter = DefaultMaxIter
        /\ res.calls[1].x0 = ClosedFormGuess

\* A query whose plain solve has diverged after 50 iterations.
C18_Witness ==
    /\ PlainSolveDiverged
    /\ res.calls[1].steps = DefaultMaxIter
    /\ res.err # ""

(***************************************************************************)
(* Recalibration and what the operations leave alone.                      *)
(***************************************************************************)
\* self is calibrated at order: every node value is tagged at that order
\* with its own label, and the spline is the one solved from these nodes.
Calibrated(self, order) ==
    /\ self.ad = order
    /\ \A i \in 1..Len(self.nodes) :
        /\ self.nodes[i].v.order = order
        /\ self.nodes[i].v.vars = (IF order = 0 THEN <<>> ELSE <<i>>)
    /\ self.spline.solved
    /\ self.spline = csolve(self).self.spline

\* C19: recalibration (every node value re-tagged, the spline re-solved)
\* happens at construction and on every _set_ad_order call whose order
\* differs from the current one, once each; a _set_ad_order call with the
\* current order changes nothing and solves nothing, a rejected order
\* likewise, and no other operation re-tags or re-solves.
C19_RecalibrationTriggers ==
    /\ (res.op = "__init__" /\ res.err = "") =>
            (res.csolves = 1 /\ Calibrated(smile, res.args.ad))
    /\ [][IF res'.op = "_set_ad_order"
          THEN IF res'.args.order = smile.ad
               THEN smile' = smile /\ res'.csolves = 0 /\ res'.err = ""
               ELSE IF res'.args.order \in {0, 1, 2}
               THEN /\ res'.csolves = 1
                    /\ res'.err = ""
                    /\ Calibrated(smile', res'.args.order)
               ELSE smile' = smile /\ res'.csolves = 0 /\ res'.err = "ValueError"
          ELSE smile' = smile]_vars

\* A _set_ad_order call with the current order, on a Smile that an earlier
\* call has recalibrated at order 2.
C19_Witness ==
    /\ res.op = "_set_ad_order"
    /\ res.args.order = smile.ad
    /\ smile.ad = 2
    /\ res.csolves = 0
    /\ Calibrated(smile, 2)

\* C20: after construction no operation (_set_ad_order, __getitem__, get,
\* get_from_strike) changes delta_type; _set_ad_order also leaves the node
\* keys and their order, the real part of every node value, the knot
\* sequence and with it the bounds, the dates and the time to expiry
\* unchanged.
C20_FrameOfOperations ==
    [][/\ smile'.delta_type = smile.delta_type
       /\ res'.op = "_set_ad_order" =>
            /\ Keys(smile'.nodes) = Keys(smile.nodes)
            /\ \A i \in 1..Len(smile.nodes) :
                    smile'.nodes[i].v.real = smile.nodes[i].v.real
            /\ smile'.n = smile.n
            /\ smile'.node_keys = smile.node_keys
            /\ smile'.t = smile.t
            /\ lower_bound_of(smile') = lower_bound_of(smile)
            /\ upper_bound_of(smile') = upper_bound_of(smile)
            /\ smile'.eval_date = smile.eval_date
            /\ smile'.expiry = smile.expiry
            /\ smile'.t_expiry = smile.t_expiry
            /\ smile'.t_expiry_sqrt = smile.t_expiry_sqrt]_vars

\* _set_ad_order has recalibrated a premium-adjusted Smile of two nodes with
\* different volatilities at order 1.
C20_Witness ==
    /\ res.op = "_set_ad_order"
    /\ res.csolves = 1
    /\ smile.ad = 1
    /\ smile.n = 2
    /\ IsPa(smile.delta_type)
    /\ smile.nodes[1].v.real # smile.nodes[2].v.real

(***************************************************************************)
(* Queries read the Smile only.                                            *)
(***************************************************************************)
IsQuery(op) == op \in {"__getitem__", "get", "get_from_strike"}

C22_TimeToExpiry ==
    smile.exists =>
        /\ smile.t_expiry = QQ(smile.expiry - smile.eval_date, DaysPerYear)
        /\ QLe(Q0, smile.t_expiry)
        /\ smile.expiry >= smile.eval_date

(***************************************************************************)
(* The first guess of get_from_strike.                                     *)
(***************************************************************************)
\* C23: the first guess of get_from_strike is the closed-form delta at the
\* volatility of the node at position floor(n/2), counted from 0 in node
\* order: for every n >= 1 that is an existing node, and the middle one when
\* n is odd; the guess is a plain number whatever the order at which the
\* node values are tagged.
C23_GuessFromMiddleNode ==
    (res.op = "get_from_strike" /\ Len(res.calls) >= 1) =>
        LET n == Len(smile.nodes)
            m == n \div 2
            x0 == res.calls[1].x0
        IN  /\ n >= 1
            /\ m \in 0..(n - 1)
            /\ n % 2 = 1 => m = (n - 1) - m
            /\ x0 = GuessAtVol(smile.nodes[m + 1].v.real)
            /\ Len(x0) = 2 /\ x0[1] \in Int /\ x0[2] \in Nat \ {0}

\* A query on a Smile of two nodes with different volatilities, tagged at
\* order 1, has started its solver from a guess that the first node's
\* volatility would not have given.
C23_Witness ==
    /\ res.op = "get_from_strike"
    /\ Len(res.calls) >= 1
    /\ smile.n = 2
    /\ smile.ad = 1
    /\ res.calls[1].x0 # GuessAtVol(smile.nodes[1].v.real)

(***************************************************************************)
(* Variable arithmetic.                                                    *)
(***************************************************************************)
IsVariableOp(op) ==
    op \in {"__add__", "__sub__", "__mul__", "__truediv__",
            "__radd__", "__rsub__", "__rmul__", "__rtruediv__"}

\* C24: a Variable combined with another operand by +, -, * or / gives,
\* with a plain number, a Variable with the same labels; with a Dual, a
\* Dual; with a Dual2, a Dual2; with another Variable, a Dual or a Dual2 by
\* the global order 1 or 2, and a TypeError at global order 0; with an
\* operand of any other type, a TypeError.
C24_VariablePromotion ==
    IsVariableOp(res.op) =>
        LET other == res.args.other
            Gives(type) == res.err = "" /\ res.val[1].type = type
        IN  CASE IsFloatOrInt(other) ->
                    Gives("Variable") /\ res.val[1].vars = res.args.self.vars
              [] other.type = "Dual" -> Gives("Dual")
              [] other.type = "Dual2" -> Gives("Dual2")
              [] other.type = "Variable" ->
                    IF res.args.order = 1 THEN Gives("Dual")
                    ELSE IF res.args.order = 2 THEN Gives("Dual2")
                    ELSE res.err = "TypeError" /\ res.val = <<>>
              [] OTHER -> res.err = "TypeError" /\ res.val = <<>>

(***************************************************************************)
(* The derivative order, the spline variant and the node tags.             *)
(***************************************************************************)
VariantOf(order) ==
    CASE order = 0 -> "PPSplineF64"
      [] order = 1 -> "PPSplineDual"
      [] order = 2 -> "PPSplineDual2"

\* C25: after construction and after any sequence of _set_ad_order calls,
\* accepted or rejected, the derivative order of the Smile is 0, 1 or 2, its
\* spline is of the variant of that order, every node value is tagged at
\* that order, and the spline is the one solved from the current nodes.
C25_OrderVariantTags ==
    smile.exists =>
        /\ smile.ad \in {0, 1, 2}
        /\ smile.spline.variant = VariantOf(smile.ad)
        /\ \A i \in 1..Len(smile.nodes) : smile.nodes[i].v.order = smile.ad
        /\ smile.spline.solved
        /\ smile.spline = csolve(smile).self.spline

\* A Smile of several nodes held at order 2 has rejected a _set_ad_order
\* call.
C25_Witness ==
    /\ smile.exists
    /\ smile.n >= 2
    /\ smile.ad = 2
    /\ res.op = "_set_ad_order"
    /\ res.err = "ValueError"
    /\ smile.spline.variant = "PPSplineDual2"

(***************************************************************************)
(* Termination of the Newton solver.                                       *)
(***************************************************************************)
\* The step of iteration i of the recorded call, from trace[i] to
\* trace[i + 1], is below the tolerance.
StepIsBelow(i) == StepBelow(res.trace[i + 1], res.trace[i], res.args.tolerance)
Returned == res.op = "_newton" /\ res.err = ""
CapExceeded ==
    res.op = "_newton" /\ res.err = "ValueError" /\ res.raised_by = "_newton"

\* What holds of every call of _newton with cap m: at most m evaluations of
\* f and of f1; a return only of (x1, steps) with 1 <= steps <= m, x1 the
\* estimate of iteration steps, the step of that iteration below the
\* tolerance and no earlier one below it.
NewtonWithinCap ==
    res.op = "_newton" =>
        /\ res.steps \in 0..res.args.max_iter
        /\ res.evals[1] <= res.args.max_iter
        /\ res.evals[2] <= res.args.max_iter
        /\ res.err = "" =>
            /\ res.steps \in 1..res.args.max_iter
            /\ Len(res.trace) = res.steps + 1
            /\ res.val = <<res.trace[res.steps + 1]>>
            /\ StepIsBelow(res.steps)
            /\ \A i \in 1..(res.steps - 1) : ~StepIsBelow(i)

\* C26: _newton with cap m evaluates f and f1 at most m times each, returns
\* (x1, steps) with 1 <= steps <= m at the first iteration whose step is
\* below the tolerance, and otherwise fails after exactly m iterations (at
\* once when m = 0); it returns no value whose last step was not below the
\* tolerance.
C26_NewtonTerminates ==
    /\ NewtonWithinCap
    /\ (res.op = "_newton" /\ res.err # "") =>
        /\ res.steps = res.args.max_iter
        /\ \A i \in 1..(Len(res.trace) - 1) : ~StepIsBelow(i)

(***************************************************************************)
(* The estimates of the solver and the bounds of the Smile.                *)
(***************************************************************************)
\* The index delta that root and root_deriv look up for the estimate delta
\* of the query recorded in res.
IndexOfEstimate(delta) ==
    _delta_index_from_call_or_put_delta(smile, delta, res.args.phi, StrikeRatio,
                                        QDiv(res.args.k, res.args.f))
WithinBounds(item) == QLe(smile.t[1], item) /\ QLe(item, Last(smile.t))

\* C28: in every get_from_strike that runs the solver, the first guess and
\* every iterate of every _newton call convert to an index delta within
\* [lower bound, upper bound], and a failure of the query is the solver's
\* own error (the iteration cap exceeded), never a failed lookup.
C28_EstimatesWithinBounds ==
    (res.op = "get_from_strike" /\ Len(res.calls) >= 1) =>
        /\ \A c \in 1..Len(res.calls) :
            \A i \in 1..Len(res.calls[c].trace) :
                WithinBounds(IndexOfEstimate(res.calls[c].trace[i]))
        /\ res.err # "" => res.raised_by = "_newton"


(***************************************************************************)
(* A rejected derivative order.                                            *)
(***************************************************************************)
RejectedOrder ==
    /\ res.op = "_set_ad_order"
    /\ res.args.order \notin {0, 1, 2}

\* C29: a call of _set_ad_order with an order outside {0, 1, 2} fails with
\* an error, solves nothing, and leaves the Smile's order, its node values
\* and its spline as they were; every lookup gives after the failed call
\* what it gave before it.
C29_RejectedOrderChangesNothing ==
    [][RejectedOrder' =>
        /\ res'.err = "ValueError"
        /\ res'.csolves = 0
        /\ smile'.ad = smile.ad
        /\ smile'.nodes = smile.nodes
        /\ smile'.spline = smile.spline
        /\ \A item \in LookupGrid :
            __getitem__(smile', item) = __getitem__(smile, item)]_vars

\* An order outside {0, 1, 2} has been rejected on a Smile that had been
\* recalibrated to order 2 before, whose nodes still carry their labels.
C29_Witness ==
    /\ RejectedOrder
    /\ res.err = "ValueError"
    /\ Calibrated(smile, 2)


(***************************************************************************)
(* The size of the spline system.                                          *)
(***************************************************************************)
\* A construction of n >= 1 nodes has passed its validation and has called
\* csolve.
CalibratedAtConstruction ==
    /\ res.op = "__init__"
    /\ res.csolves = 1
    /\ Len(res.args.nodes) >= 1

\* The knots that construction has built from its arguments, and the
\* constraints that csolve has handed to the solver on them.
ConstructedKnots ==
    knots(Keys(res.args.nodes),
          upper_bound(_validate_delta_type(res.args.delta_type).val, res.args.nodes,
                      pow_half(QQ(res.args.expiry - EvalDate, DaysPerYear))))
ConstructedSystem ==
    LET self == [t |-> ConstructedKnots, nodes |-> res.args.nodes,
                 n |-> Len(res.args.nodes), ad |-> res.args.ad]
    IN  IF self.n = 1 THEN _csolve_n1(self) ELSE _csolve_n_other(self)

\* C30: whenever a Smile of n >= 1 nodes is calibrated, the system handed to
\* the solver is square: the sites and the values are as many as the
\* coefficients, the number of knots minus 4.  They are the n node values,
\* one more for the doubled value when n = 1, and the two boundary
\* constraints.  This holds of the system of a construction, solved or not,
\* and of the system kept in the spline of every Smile.
C30_SquareSystem ==
    /\ CalibratedAtConstruction =>
        LET n == Len(res.args.nodes)
            a == ConstructedSystem
        IN  /\ Len(a.tau) = Len(ConstructedKnots) - 4
            /\ Len(a.y) = Len(a.tau)
            /\ Len(a.tau) = n + (IF n = 1 THEN 1 ELSE 0) + 2
    /\ smile.exists =>
        /\ Len(smile.spline.tau) = Len(smile.t) - 4
        /\ Len(smile.spline.y) = Len(smile.spline.tau)
        /\ Len(smile.spline.c) = Len(smile.spline.tau)
        /\ smile.spline.n = Len(smile.spline.tau)

\* A single-node construction has solved its system of four constraints, the
\* node's value standing twice between the two boundary constraints.
C30_Witness ==
    /\ CalibratedAtConstruction
    /\ smile.exists
    /\ smile.n = 1
    /\ Len(smile.spline.tau) = 4
    /\ smile.spline.y[2] = smile.spline.y[3]
    /\ smile.spline.tau[2] # smile.spline.tau[3]

====
